---- MODULE Spec2Model ----
(***************************************************************************)
(* License server (src/license-server.js): customers, license keys,       *)
(* device activations, on the document-store and the flat-file backend.   *)
(*                                                                         *)
(* One request is delivered to two deployments of the program, one         *)
(* started with MONGODB_URI set (useMongo = TRUE, store `coll`) and one    *)
(* without (useMongo = FALSE, store `db`).  Each handler is an operator    *)
(* with the flag `mongo` standing for useMongo; an action applies the      *)
(* handler to both deployments with the same body, clock and random key.  *)
(*                                                                         *)
(* Spec follows one license through its life (a store that holds a single *)
(* customer); SpecFleet issues several licenses, with fewer request        *)
(* values; SpecIO lets storage reads and writes fail; SpecRace and        *)
(* SpecRaceFile have requests in flight at the same time, on the document *)
(* store and on the flat file.                                             *)
(*                                                                         *)
(* Time is counted in days since 1 January of a base year; all years in   *)
(* the horizon are non-leap.  Ids are provider-assigned and modelled as    *)
(* the position of the record in its store.  Request fields are strings   *)
(* ("" is a missing field) or tagged numbers.                              *)
(***************************************************************************)
EXTENDS Integers, Sequences, FiniteSets, Bags, TLC

VARIABLES db, coll, now, req, resF, resM, inflight

vars == <<db, coll, now, req, resF, resM, inflight>>

\* ---------------------------------------------------------------- bounds
MaxCustomers == 2
MaxInstants == 3
MaxDay == 153
MaxInflight == 2

\* ------------------------------------------------------- request values
Undef == [t |-> "undefined", n |-> 0]
Num(n) == [t |-> "number", n |-> n]

FirstKey == "LIC-AAAA-AAAA-AAAA-AAAA"
GenKeys == {FirstKey, "LIC-BBBB-BBBB-BBBB-BBBB"}
KeysIn == GenKeys \cup {""}
DevicesIn == {"dev1", "dev2", "dev3", ""}
BannedIn == {Undef, Num(1), Num(0)}

\* Clock readings: 31 Jan, 3 Mar, 31 Mar, 28 Feb, 3 Apr, 1 May of the base year.
InstantSeq == <<30, 61, 89, 58, 92, 120>>
Instants == {InstantSeq[i] : i \in 1..(IF MaxInstants < Len(InstantSeq) THEN MaxInstants ELSE Len(InstantSeq))}

\* ------------------------------------------------------------- calendar
MonthDays == <<31, 28, 31, 30, 31, 30, 31, 31, 30, 31, 30, 31>>

RECURSIVE DaysBefore(_)
DaysBefore(m) == IF m = 0 THEN 0 ELSE DaysBefore(m - 1) + MonthDays[m]

YearOf(t) == t \div 365
MonthOf(t) == CHOOSE m \in 0..11 : DaysBefore(m) <= t % 365 /\ t % 365 < DaysBefore(m + 1)
DateOf(t) == (t % 365) - DaysBefore(MonthOf(t)) + 1
MakeDay(y, m, d) == 365 * (y + (m \div 12)) + DaysBefore(m % 12) + d - 1

\* addMonths: d.setMonth(d.getMonth() + months); the day of the month is
\* kept, so a day past the end of the target month rolls into the next.
addMonths(date, months) == MakeDay(YearOf(date), MonthOf(date) + months, DateOf(date))

\* a license still counts as valid at the very instant it expires
isExpiredStrict(iso, t) == iso < t

isExpired(iso, t) == iso <= t

\* a conversion that lets a months value of 0 through
NumberOrKeepsZero(v, dflt) == IF v.t = "number" THEN v.n ELSE dflt

\* Number(months) || dflt, after the destructuring default
NumberOr(v, dflt) == IF v.t = "number" /\ v.n # 0 THEN v.n ELSE dflt

\* const { maxDevices = 2 } = req.body
maxDevicesOf(v) == IF v.t = "undefined" THEN 2 ELSE v.n

\* const { banned = true } = req.body, used as a truth value
bannedOf(v) == IF v.t = "undefined" THEN TRUE ELSE v.n # 0

\* ------------------------------------------------------------ persistence
\* Array.prototype.find over a sequence of test results: the index of the
\* first element whose test is TRUE, 0 if there is none
FirstIdx(hit) ==
  IF \E i \in 1..Len(hit) : hit[i]
  THEN CHOOSE i \in 1..Len(hit) : hit[i] /\ \A j \in 1..(i - 1) : ~hit[j]
  ELSE 0

\* db.customers.find(x => x.id === req.params.id)
fileFindById(data, id) == FirstIdx([i \in 1..Len(data) |-> data[i].id = id])

\* db.customers.find(x => x.licenseKey === licenseKey)
fileFindByLicense(data, licenseKey) ==
  FirstIdx([i \in 1..Len(data) |-> data[i].licenseKey = licenseKey])

\* CustomerModel.findById(id)
mongoFindById(docs, id) == FirstIdx([i \in 1..Len(docs) |-> docs[i].id = id])

\* CustomerModel.findOne({ licenseKey })
mongoFindByLicense(docs, licenseKey) ==
  FirstIdx([i \in 1..Len(docs) |-> docs[i].licenseKey = licenseKey])

\* licenseKey: { unique: true, index: true }: an insert of a key that is
\* already in the collection is rejected by the store
uniqueIndexRejects(docs, licenseKey) == \E i \in 1..Len(docs) : docs[i].licenseKey = licenseKey

\* c.activations.find(a => a.deviceId === deviceId)
findActivation(c, deviceId) ==
  FirstIdx([k \in 1..Len(c.activations) |-> c.activations[k].deviceId = deviceId])

\* the limit check lets one device too many through
limitReachedOffByOne(c) == Len(c.activations) > c.maxDevices

\* a limit check that never refuses a device
limitReachedNever(c) == FALSE

\* (c.activations?.length || 0) >= c.maxDevices
limitReached(c) == Len(c.activations) >= c.maxDevices

\* { deviceId, activatedAt: now, lastSeen: now }
newActivation(deviceId, t) == [deviceId |-> deviceId, activatedAt |-> t, lastSeen |-> t]

\* a heartbeat that rewrites the whole activation record
touchActivationResets(c, i, t) ==
  [c EXCEPT !.activations[i].lastSeen = t, !.activations[i].activatedAt = t]

\* existing.lastSeen = now / activation.lastSeen = now
touchActivation(c, i, t) == [c EXCEPT !.activations[i].lastSeen = t]

\* a renewal that always counts from the moment of the request
renewBaseFromNow(c, t) == t

\* isExpired(c.expiresAt) ? new Date().toISOString() : c.expiresAt
renewBase(c, t) == IF isExpired(c.expiresAt, t) THEN t ELSE c.expiresAt

\* an unban that forces the status to 'active'
banStatusForcesActive(c, banned, t) == IF banned THEN "banned" ELSE "active"

\* banned ? 'banned' : (isExpired(c.expiresAt) ? 'expired' : 'active')
banStatus(c, banned, t) ==
  IF banned THEN "banned" ELSE IF isExpired(c.expiresAt, t) THEN "expired" ELSE "active"

\* a verify that re-derives the status of a banned customer too
verifyStatusIgnoresBan(c, t) == IF isExpired(c.expiresAt, t) THEN "expired" ELSE "active"

\* let status = c.status; if (status !== 'banned') status = isExpired(...) ? 'expired' : 'active'
verifyStatus(c, t) ==
  IF c.status # "banned"
  THEN IF isExpired(c.expiresAt, t) THEN "expired" ELSE "active"
  ELSE c.status

\* the customer object built by the create handler
newCustomer(id, name, email, licenseKey, months, maxDevices, t) ==
  [id |-> id, name |-> name, email |-> email, licenseKey |-> licenseKey,
   status |-> "active", maxDevices |-> maxDevicesOf(maxDevices),
   createdAt |-> t, expiresAt |-> addMonths(t, NumberOr(months, 6)),
   activations |-> <<>>]

Err(code, msg) == [code |-> code, error |-> msg]

\* ---------------------------------------------------------------- handlers
\* POST /api/customers
createCustomer(mongo, store, name, email, months, maxDevices, licenseKey, t) ==
  IF name = "" \/ email = ""
  THEN [store |-> store, res |-> Err(400, "name and email required")]
  ELSE IF mongo
  THEN IF uniqueIndexRejects(store, licenseKey)
       THEN [store |-> store, res |-> Err(500, "create failed")]
       ELSE LET doc == newCustomer(Len(store) + 1, name, email, licenseKey, months, maxDevices, t)
            IN [store |-> Append(store, doc), res |-> [code |-> 200, customer |-> doc]]
  ELSE LET customer == newCustomer(Len(store) + 1, name, email, licenseKey, months, maxDevices, t)
       IN [store |-> Append(store, customer), res |-> [code |-> 200, customer |-> customer]]

\* CustomerModel.find({}).sort({ createdAt: -1 }): the documents ordered by
\* createdAt, newest first; the store fixes no order among equal createdAt
mongoListCustomers(docs) ==
  {[i \in 1..Len(docs) |-> docs[p[i]]] :
     p \in {q \in Permutations(1..Len(docs)) :
              \A i, j \in 1..Len(docs) : i < j => docs[q[i]].createdAt >= docs[q[j]].createdAt}}

\* GET /api/customers: the set of bodies the handler can answer with
listCustomers(mongo, store) ==
  IF mongo
  THEN {[code |-> 200, customers |-> l] : l \in mongoListCustomers(store)}
  ELSE {[code |-> 200, customers |-> store]}

\* a renewal that also puts the customer back to 'active'
renewCustomerReactivates(mongo, store, id, months, t) ==
  LET i == IF mongo THEN mongoFindById(store, id) ELSE fileFindById(store, id) IN
  IF i = 0 THEN [store |-> store, res |-> Err(404, "not found")]
  ELSE LET c == [store[i] EXCEPT !.expiresAt = addMonths(renewBase(store[i], t), NumberOr(months, 3)),
                                 !.status = "active"]
       IN [store |-> [store EXCEPT ![i] = c], res |-> [code |-> 200, customer |-> c]]

\* PUT /api/customers/:id/renew
renewCustomer(mongo, store, id, months, t) ==
  IF mongo
  THEN LET i == mongoFindById(store, id) IN
       IF i = 0 THEN [store |-> store, res |-> Err(404, "not found")]
       ELSE LET c == [store[i] EXCEPT !.expiresAt = addMonths(renewBase(store[i], t), NumberOr(months, 3))]
            IN [store |-> [store EXCEPT ![i] = c], res |-> [code |-> 200, customer |-> c]]
  ELSE LET i == fileFindById(store, id) IN
       IF i = 0 THEN [store |-> store, res |-> Err(404, "not found")]
       ELSE LET c == [store[i] EXCEPT !.expiresAt = addMonths(renewBase(store[i], t), NumberOr(months, 3))]
            IN [store |-> [store EXCEPT ![i] = c], res |-> [code |-> 200, customer |-> c]]

\* PUT /api/customers/:id/ban
banCustomer(mongo, store, id, banned, t) ==
  IF mongo
  THEN LET i == mongoFindById(store, id) IN
       IF i = 0 THEN [store |-> store, res |-> Err(404, "not found")]
       ELSE LET c == [store[i] EXCEPT !.status = banStatus(store[i], bannedOf(banned), t)]
            IN [store |-> [store EXCEPT ![i] = c], res |-> [code |-> 200, customer |-> c]]
  ELSE LET i == fileFindById(store, id) IN
       IF i = 0 THEN [store |-> store, res |-> Err(404, "not found")]
       ELSE LET c == [store[i] EXCEPT !.status = banStatus(store[i], bannedOf(banned), t)]
            IN [store |-> [store EXCEPT ![i] = c], res |-> [code |-> 200, customer |-> c]]

\* the part of the activate handler that runs on the customer found
activateFound(store, i, deviceId, t) ==
  LET c == store[i] IN
  IF c.status = "banned"
  THEN [store |-> store, res |-> [code |-> 403, status |-> "banned"]]
  ELSE IF isExpired(c.expiresAt, t)
  THEN [store |-> [store EXCEPT ![i].status = "expired"],
        res |-> [code |-> 403, status |-> "expired", expiresAt |-> c.expiresAt]]
  ELSE LET existing == findActivation(c, deviceId) IN
       IF existing = 0 /\ limitReached(c)
       THEN [store |-> store,
             res |-> [code |-> 403, status |-> "limit_exceeded", maxDevices |-> c.maxDevices]]
       ELSE LET c1 == IF existing = 0
                      THEN [c EXCEPT !.activations = Append(@, newActivation(deviceId, t))]
                      ELSE touchActivation(c, existing, t)
                c2 == [c1 EXCEPT !.status = "active"]
            IN [store |-> [store EXCEPT ![i] = c2],
                res |-> [code |-> 200, status |-> "active", expiresAt |-> c2.expiresAt,
                         deviceId |-> deviceId, customerName |-> c2.name]]

\* POST /api/licenses/activate
activateLicense(mongo, store, licenseKey, deviceId, t) ==
  IF licenseKey = "" \/ deviceId = ""
  THEN [store |-> store, res |-> Err(400, "licenseKey and deviceId required")]
  ELSE IF mongo
  THEN LET i == mongoFindByLicense(store, licenseKey) IN
       IF i = 0
       THEN [store |-> store, res |-> [code |-> 404, status |-> "invalid", error |-> "invalid license"]]
       ELSE activateFound(store, i, deviceId, t)
  ELSE LET i == fileFindByLicense(store, licenseKey) IN
       IF i = 0
       THEN [store |-> store, res |-> [code |-> 404, status |-> "invalid", error |-> "invalid license"]]
       ELSE activateFound(store, i, deviceId, t)

\* a verify that refreshes and saves the status before it looks for the device
verifyFoundRefreshFirst(store, i, deviceId, t) ==
  LET c == [store[i] EXCEPT !.status = verifyStatus(store[i], t)]
      activation == findActivation(c, deviceId) IN
  IF activation = 0
  THEN [store |-> [store EXCEPT ![i] = c], res |-> [code |-> 403, status |-> "not_activated"]]
  ELSE LET c2 == touchActivation(c, activation, t)
       IN [store |-> [store EXCEPT ![i] = c2],
           res |-> [code |-> 200, status |-> c2.status, expiresAt |-> c2.expiresAt]]

\* the part of the verify handler that runs on the customer found
verifyFound(store, i, deviceId, t) ==
  LET c == store[i]
      activation == findActivation(c, deviceId) IN
  IF activation = 0
  THEN [store |-> store, res |-> [code |-> 403, status |-> "not_activated"]]
  ELSE LET c1 == touchActivation(c, activation, t)
           c2 == [c1 EXCEPT !.status = verifyStatus(c, t)]
       IN [store |-> [store EXCEPT ![i] = c2],
           res |-> [code |-> 200, status |-> c2.status, expiresAt |-> c2.expiresAt]]

\* GET /api/licenses/verify
verifyLicense(mongo, store, licenseKey, deviceId, t) ==
  IF licenseKey = "" \/ deviceId = ""
  THEN [store |-> store, res |-> Err(400, "key and deviceId required")]
  ELSE IF mongo
  THEN LET i == mongoFindByLicense(store, licenseKey) IN
       IF i = 0 THEN [store |-> store, res |-> [code |-> 404, status |-> "invalid"]]
       ELSE verifyFound(store, i, deviceId, t)
  ELSE LET i == fileFindByLicense(store, licenseKey) IN
       IF i = 0 THEN [store |-> store, res |-> [code |-> 404, status |-> "invalid"]]
       ELSE verifyFound(store, i, deviceId, t)

\* requireAdmin: the x-admin-auth header must equal ADMIN_PASSWORD
ADMIN_PASSWORD == "admin123"
HeadersIn == {"admin123", "guess", ""}
requireAdmin(hdr) == hdr # "" /\ hdr = ADMIN_PASSWORD

\* ------------------------------------------------------------------ actions
\* A request is handled to completion (one action), its response is
\* delivered (Respond), and only then is the next request handled.
Idle == [op |-> "none"]
NoRes == [code |-> 0]

\* the requests being handled concurrently: a bag of handler states
Flights == BagToSet(inflight)

Init ==
  /\ db = <<>>
  /\ coll = <<>>
  /\ now = InstantSeq[1]
  /\ req = Idle
  /\ resF = NoRes
  /\ resM = NoRes
  /\ inflight = EmptyBag

\* the handler result f (flat-file deployment) and m (document-store
\* deployment) of request r become the new stores and responses
Handled(r, f, m) ==
  /\ req' = r
  /\ db' = f.store
  /\ coll' = m.store
  /\ resF' = f.res
  /\ resM' = m.res
  /\ UNCHANGED <<now, inflight>>

\* a request to an admin route without the admin password
Unauthorized ==
  req.op = "none" /\ \E op \in {"POST /api/customers", "GET /api/customers",
                             "PUT /api/customers/:id/renew", "PUT /api/customers/:id/ban"}, hdr \in HeadersIn :
    /\ ~requireAdmin(hdr)
    /\ Handled([op |-> "unauthorized", route |-> op, auth |-> hdr],
               [store |-> db, res |-> Err(401, "Unauthorized")],
               [store |-> coll, res |-> Err(401, "Unauthorized")])

CreateReq(b, licenseKey) ==
  Handled([op |-> "create", name |-> b.name, email |-> b.email, months |-> b.months,
           maxDevices |-> b.maxDevices, licenseKey |-> licenseKey],
          createCustomer(FALSE, db, b.name, b.email, b.months, b.maxDevices, licenseKey, now),
          createCustomer(TRUE, coll, b.name, b.email, b.months, b.maxDevices, licenseKey, now))

List ==
  req.op = "none" /\ \E f \in listCustomers(FALSE, db), m \in listCustomers(TRUE, coll) :
    Handled([op |-> "list"], [store |-> db, res |-> f], [store |-> coll, res |-> m])

RenewReq(id, months) ==
  LET f == renewCustomer(FALSE, db, id, months, now)
      m == renewCustomer(TRUE, coll, id, months, now)
  IN /\ \A i \in 1..Len(f.store) : f.store[i].expiresAt <= MaxDay
     /\ \A i \in 1..Len(m.store) : m.store[i].expiresAt <= MaxDay
     /\ Handled([op |-> "renew", id |-> id, months |-> months], f, m)

BanReq(id, banned) ==
  Handled([op |-> "ban", id |-> id, banned |-> banned],
          banCustomer(FALSE, db, id, banned, now),
          banCustomer(TRUE, coll, id, banned, now))

ActivateReq(licenseKey, deviceId) ==
  Handled([op |-> "activate", licenseKey |-> licenseKey, deviceId |-> deviceId],
          activateLicense(FALSE, db, licenseKey, deviceId, now),
          activateLicense(TRUE, coll, licenseKey, deviceId, now))

VerifyReq(licenseKey, deviceId) ==
  Handled([op |-> "verify", licenseKey |-> licenseKey, deviceId |-> deviceId],
          verifyLicense(FALSE, db, licenseKey, deviceId, now),
          verifyLicense(TRUE, coll, licenseKey, deviceId, now))

\* the response has been sent
Respond ==
  /\ req.op # "none"
  /\ req' = Idle
  /\ resF' = NoRes
  /\ resM' = NoRes
  /\ UNCHANGED <<db, coll, now, inflight>>

\* the wall clock moves on between requests
Tick ==
  /\ req.op = "none"
  /\ \E t \in Instants : t > now /\ now' = t
  /\ UNCHANGED <<db, coll, req, resF, resM, inflight>>

\* ---- the life of one license: a store that holds a single customer
CreateBodies ==
  {[name |-> "A", email |-> "a@x.com", months |-> mo, maxDevices |-> md] :
     mo \in {Num(1), Undef}, md \in {Undef, Num(1)}}
  \cup {[name |-> "", email |-> "a@x.com", months |-> Num(1), maxDevices |-> Undef],
        [name |-> "A", email |-> "", months |-> Num(1), maxDevices |-> Undef]}
RenewMonths == {Undef, Num(0), Num(1), Num(-1)}
IdsIn == {1, 2}

\* the keys are interchangeable: the one customer is issued the first key,
\* and the other key is a well-formed key that no customer holds
Create == req.op = "none" /\ \E b \in CreateBodies : db = <<>> /\ CreateReq(b, FirstKey)
Renew == req.op = "none" /\ \E id \in IdsIn, months \in RenewMonths : RenewReq(id, months)
Ban == req.op = "none" /\ \E id \in IdsIn, banned \in BannedIn : BanReq(id, banned)
Activate == req.op = "none" /\ \E licenseKey \in KeysIn, deviceId \in DevicesIn : ActivateReq(licenseKey, deviceId)
Verify == req.op = "none" /\ \E licenseKey \in KeysIn, deviceId \in DevicesIn : VerifyReq(licenseKey, deviceId)

Next == Unauthorized \/ Create \/ List \/ Renew \/ Ban \/ Activate \/ Verify \/ Respond \/ Tick

Spec == Init /\ [][Next]_vars

\* ---- several customers: issuing, listing, banning and activating licenses
FleetBodies == {[name |-> "A", email |-> "a@x.com", months |-> Num(1), maxDevices |-> Undef]}

CreateFleet ==
  req.op = "none" /\ \E b \in FleetBodies, licenseKey \in GenKeys :
    Len(db) < MaxCustomers /\ CreateReq(b, licenseKey)
BanFleet == req.op = "none" /\ \E id \in 1..(MaxCustomers + 1), banned \in BannedIn : BanReq(id, banned)
ActivateFleet == req.op = "none" /\ \E licenseKey \in GenKeys : ActivateReq(licenseKey, "dev1")

NextFleet == CreateFleet \/ List \/ BanFleet \/ ActivateFleet \/ Respond \/ Tick

SpecFleet == Init /\ [][NextFleet]_vars

\* ---- storage failures: a read or a write of the store may fail; requests
\* on the first customer and the first key
\* readData: a file that cannot be read or parsed counts as an empty data set
readData(file, readOk) == IF readOk THEN file ELSE <<>>

\* the handler that answered res went through writeData / mongoSave / create
writesRecord(op, res) ==
  \/ op # "list" /\ res.code = 200
  \/ op = "activate" /\ res.code = 403 /\ res.status = "expired"

\* the answer to a request whose write threw: the create handler catches the
\* exception; the other handlers reject inside their async function, which
\* nothing catches, and no response is sent
writeThrew(op) == IF op = "create" THEN Err(500, "create failed") ELSE NoRes

\* a flat-file handler, h being its result on the data readData returned:
\* writeData either replaces the file or throws and leaves it as it was
fileOutcome(op, file, h, readOk, writeOk) ==
  LET wr == writesRecord(op, h.res) IN
  [store |-> IF wr /\ writeOk THEN h.store ELSE file,
   res |-> IF wr /\ ~writeOk THEN writeThrew(op) ELSE h.res,
   failed |-> (IF h.res.code # 400 /\ ~readOk THEN {"read"} ELSE {})
                \cup (IF wr /\ ~writeOk THEN {"write"} ELSE {})]

\* a document-store handler, h being its result when the store answers: a
\* rejected find or save ends the handler as a thrown write does
mongoOutcome(op, docs, h, readOk, writeOk) ==
  LET rd == op # "create" /\ h.res.code # 400
      wr == writesRecord(op, h.res) IN
  IF rd /\ ~readOk THEN [store |-> docs, res |-> NoRes, failed |-> {"read"}]
  ELSE IF wr /\ ~writeOk THEN [store |-> docs, res |-> writeThrew(op), failed |-> {"write"}]
  ELSE [store |-> h.store, res |-> h.res, failed |-> {}]

\* the request r handled with the storage outcomes readOk and writeOk
HandledIO(r, op, hf, hm, readOk, writeOk) ==
  LET f == fileOutcome(op, db, hf, readOk, writeOk)
      m == mongoOutcome(op, coll, hm, readOk, writeOk)
  IN Handled(r @@ [op |-> op, failedF |-> f.failed, failedM |-> m.failed], f, m)

CreateIO ==
  req.op = "none" /\ \E b \in FleetBodies, licenseKey \in GenKeys, readOk, writeOk \in BOOLEAN :
    /\ Len(db) < MaxCustomers /\ Len(coll) < MaxCustomers
    /\ HandledIO([name |-> b.name, email |-> b.email, licenseKey |-> licenseKey], "create",
                 createCustomer(FALSE, readData(db, readOk), b.name, b.email, b.months,
                                b.maxDevices, licenseKey, now),
                 createCustomer(TRUE, coll, b.name, b.email, b.months, b.maxDevices, licenseKey, now),
                 readOk, writeOk)

ListIO ==
  req.op = "none" /\ \E readOk \in BOOLEAN :
    \E f \in listCustomers(FALSE, readData(db, readOk)), m \in listCustomers(TRUE, coll) :
      HandledIO([route |-> "GET /api/customers"], "list",
                [store |-> db, res |-> f], [store |-> coll, res |-> m], readOk, TRUE)

RenewIO ==
  req.op = "none" /\ \E id \in {1}, readOk, writeOk \in BOOLEAN :
    LET hf == renewCustomer(FALSE, readData(db, readOk), id, Num(1), now)
        hm == renewCustomer(TRUE, coll, id, Num(1), now)
    IN /\ \A i \in 1..Len(hf.store) : hf.store[i].expiresAt <= MaxDay
       /\ \A i \in 1..Len(hm.store) : hm.store[i].expiresAt <= MaxDay
       /\ HandledIO([id |-> id, months |-> Num(1)], "renew", hf, hm, readOk, writeOk)

BanIO ==
  req.op = "none" /\ \E id \in {1}, readOk, writeOk \in BOOLEAN :
    HandledIO([id |-> id, banned |-> Undef], "ban",
              banCustomer(FALSE, readData(db, readOk), id, Undef, now),
              banCustomer(TRUE, coll, id, Undef, now), readOk, writeOk)

ActivateIO ==
  req.op = "none" /\ \E licenseKey \in {FirstKey}, readOk, writeOk \in BOOLEAN :
    HandledIO([licenseKey |-> licenseKey, deviceId |-> "dev1"], "activate",
              activateLicense(FALSE, readData(db, readOk), licenseKey, "dev1", now),
              activateLicense(TRUE, coll, licenseKey, "dev1", now), readOk, writeOk)

VerifyIO ==
  req.op = "none" /\ \E licenseKey \in {FirstKey}, readOk, writeOk \in BOOLEAN :
    HandledIO([licenseKey |-> licenseKey, deviceId |-> "dev1"], "verify",
              verifyLicense(FALSE, readData(db, readOk), licenseKey, "dev1", now),
              verifyLicense(TRUE, coll, licenseKey, "dev1", now), readOk, writeOk)

NextIO == CreateIO \/ ListIO \/ RenewIO \/ BanIO \/ ActivateIO \/ VerifyIO \/ Respond \/ Tick

SpecIO == Init /\ [][NextIO]_vars

\* ---- requests in flight at the same time
\* a handler gives way to other handlers where it awaits: `await mongoSave(c)`
\* on the document store; readData and writeData are synchronous calls, and
\* the flat-file branches await nothing
yieldsAlways(mongo) == TRUE

yields(mongo) == mongo

\* the version key __v of a stored document: it starts at 0 and every
\* activation pushed increments it, and nothing else changes either
versionOf(doc) == Len(doc.activations)

\* a save that persists the in-memory document as a whole
mongoSaveWholeDoc(cur, snap, doc) == [ok |-> TRUE, doc |-> doc]

\* doc.save() of the in-memory document doc, loaded as snap, on the stored
\* document cur: only the paths that were modified are sent ($set), a
\* pushed activation is appended ($push), and a $set inside an array element
\* requires the version the document was loaded with (else VersionError)
mongoSave(cur, snap, doc) ==
  LET pushed == SubSeq(doc.activations, Len(snap.activations) + 1, Len(doc.activations))
      touched == {k \in 1..Len(snap.activations) : doc.activations[k] # snap.activations[k]}
  IN IF touched # {} /\ versionOf(cur) # versionOf(snap)
     THEN [ok |-> FALSE, doc |-> cur]
     ELSE [ok |-> TRUE,
           doc |-> [cur EXCEPT
                      !.status = IF doc.status # snap.status THEN doc.status ELSE cur.status,
                      !.expiresAt = IF doc.expiresAt # snap.expiresAt THEN doc.expiresAt ELSE cur.expiresAt,
                      !.activations =
                        [k \in 1..Len(cur.activations) |->
                           IF k \in touched
                           THEN [cur.activations[k] EXCEPT !.lastSeen = doc.activations[k].lastSeen]
                           ELSE cur.activations[k]] \o pushed]]

\* a handler starts on request r on one deployment at the instant `at`: it
\* loads record i of the store (snap), and h is what it answers and stores
\* from what it loaded.  A handler that writes nothing answers as soon as it
\* has loaded the record and leaves nothing in flight.
Begin(mongo, r, i, h) ==
  LET wr == writesRecord(r.op, h.res)
      flight == [mongo |-> mongo, req |-> r, at |-> now, i |-> i,
                 snap |-> IF mongo THEN coll ELSE db, out |-> h]
  IN /\ BagCardinality(inflight) < MaxInflight
     /\ inflight' = IF wr
                    THEN inflight (+) SetToBag({flight @@ [pc |-> IF yields(mongo) THEN "saving"
                                                                    ELSE "done"]})
                    ELSE inflight
     /\ db' = IF wr /\ ~yields(mongo) /\ ~mongo THEN h.store ELSE db
     /\ coll' = IF wr /\ ~yields(mongo) /\ mongo THEN h.store ELSE coll
     /\ UNCHANGED <<now, req, resF, resM>>

\* the write a handler was waiting for is carried out, then it answers
Save(f) ==
  LET u == IF f.mongo THEN mongoSave(coll[f.i], f.snap[f.i], f.out.store[f.i])
           ELSE [ok |-> TRUE, doc |-> f.out.store[f.i]]
  IN /\ coll' = IF f.mongo THEN [coll EXCEPT ![f.i] = u.doc] ELSE coll
     /\ db' = IF f.mongo THEN db ELSE f.out.store
     /\ inflight' = (inflight (-) SetToBag({f}))
                       (+) SetToBag({[f EXCEPT !.pc = "done",
                                               !.out.res = IF u.ok THEN f.out.res ELSE NoRes]})

\* the response of a finished handler has been sent
Finish(f) ==
  /\ inflight' = inflight (-) SetToBag({f})
  /\ UNCHANGED <<db, coll>>

\* the event loop runs what is next for one of the requests in flight
Resume ==
  \E f \in Flights :
    /\ IF f.pc = "saving" THEN Save(f) ELSE Finish(f)
    /\ UNCHANGED <<now, req, resF, resM>>

\* the clock of the concurrent runs: the day the license is issued, then the
\* day it expires
TickRace ==
  /\ req.op = "none"
  /\ now = InstantSeq[1] /\ now' = InstantSeq[2]
  /\ UNCHANGED <<db, coll, req, resF, resM, inflight>>

RaceBody == [name |-> "A", email |-> "a@x.com", months |-> Num(1), maxDevices |-> Num(1)]
RaceDevices == {"dev1", "dev2"}

CreateRace == req.op = "none" /\ db = <<>> /\ CreateReq(RaceBody, FirstKey)

Activating(mongo) ==
  req.op = "none" /\ \E deviceId \in RaceDevices :
    Begin(mongo, [op |-> "activate", licenseKey |-> FirstKey, deviceId |-> deviceId],
          IF mongo THEN mongoFindByLicense(coll, FirstKey) ELSE fileFindByLicense(db, FirstKey),
          activateLicense(mongo, IF mongo THEN coll ELSE db, FirstKey, deviceId, now))

Verifying(mongo) ==
  req.op = "none" /\
    Begin(mongo, [op |-> "verify", licenseKey |-> FirstKey, deviceId |-> "dev1"],
          IF mongo THEN mongoFindByLicense(coll, FirstKey) ELSE fileFindByLicense(db, FirstKey),
          verifyLicense(mongo, IF mongo THEN coll ELSE db, FirstKey, "dev1", now))

Banning(mongo) ==
  req.op = "none" /\
    Begin(mongo, [op |-> "ban", id |-> 1, banned |-> Undef],
          IF mongo THEN mongoFindById(coll, 1) ELSE fileFindById(db, 1),
          banCustomer(mongo, IF mongo THEN coll ELSE db, 1, Undef, now))

Renewing(mongo) ==
  req.op = "none" /\
    LET h == renewCustomer(mongo, IF mongo THEN coll ELSE db, 1, Num(1), now)
    IN /\ \A i \in 1..Len(h.store) : h.store[i].expiresAt <= MaxDay
       /\ Begin(mongo, [op |-> "renew", id |-> 1, months |-> Num(1)],
                IF mongo THEN mongoFindById(coll, 1) ELSE fileFindById(db, 1), h)

ActivateMongo == Activating(TRUE)
VerifyMongo == Verifying(TRUE)
BanMongo == Banning(TRUE)

\* concurrent requests on the document store
NextRace ==
  CreateRace \/ ActivateMongo \/ VerifyMongo \/ BanMongo \/ Resume \/ Respond \/ TickRace

SpecRace == Init /\ [][NextRace]_vars

ActivateFile == Activating(FALSE)
VerifyFile == Verifying(FALSE)
BanFile == Banning(FALSE)
RenewFile == Renewing(FALSE)

\* concurrent requests on the flat file, in a server that keeps running
NextRaceFile ==
  CreateRace \/ ActivateFile \/ VerifyFile \/ BanFile \/ RenewFile \/ Resume \/ Respond \/ TickRace

SpecRaceFile == Init /\ [][NextRaceFile]_vars /\ WF_vars(NextRaceFile)

\* ================================================================== claims
StatusOf(r) == IF "status" \in DOMAIN r THEN r.status ELSE ""

\* the record a license key resolves to: the first one carrying the key
Holder(store, licenseKey) ==
  {i \in 1..Len(store) : /\ store[i].licenseKey = licenseKey
                         /\ \A j \in 1..(i - 1) : store[j].licenseKey # licenseKey}

DevIds(c) == {c.activations[k].deviceId : k \in 1..Len(c.activations)}

\* a step in which a request of kind op is handled
Handles(op) == req.op = "none" /\ req'.op = op

Live(c) == c.status # "banned" /\ now < c.expiresAt

C1On(s, s2, r) ==
  \A i \in Holder(s, req'.licenseKey) :
    LET c == s[i] IN
    (Live(c) /\ c.maxDevices >= 1 /\ req'.deviceId # "" /\ req'.deviceId \notin DevIds(c))
    => IF Len(c.activations) < c.maxDevices
       THEN /\ r.code = 200 /\ StatusOf(r) = "active"
            /\ s2[i].activations =
                 Append(c.activations,
                        [deviceId |-> req'.deviceId, activatedAt |-> now, lastSeen |-> now])
       ELSE /\ Len(c.activations) = c.maxDevices
            /\ r.code = 403 /\ StatusOf(r) = "limit_exceeded"
            /\ r.maxDevices = c.maxDevices
            /\ s2[i].activations = c.activations

\* C1: handled one at a time, an activate for a new deviceId on a live
\* customer with maxDevices = N >= 1 returns 'active' and appends the device
\* while fewer than N devices are activated; with N devices activated it
\* returns 'limit_exceeded' carrying maxDevices and leaves the activations
\* unchanged at size N.
C1_DeviceLimit ==
  [][Handles("activate") => C1On(db, db', resF') /\ C1On(coll, coll', resM')]_vars

C1_Witness ==
  /\ req.op = "activate"
  /\ StatusOf(resF) = "limit_exceeded" /\ StatusOf(resM) = "limit_exceeded"
  /\ \E i \in Holder(db, req.licenseKey) : db[i].maxDevices = 2 /\ Len(db[i].activations) = 2
  /\ \E i \in Holder(coll, req.licenseKey) : coll[i].maxDevices = 2 /\ Len(coll[i].activations) = 2

C2On(s, s2, r) ==
  \A i \in Holder(s, req'.licenseKey) :
    LET c == s[i] IN
    (Live(c) /\ req'.deviceId # "" /\ req'.deviceId \in DevIds(c))
    => /\ StatusOf(r) = "active"
       /\ Len(s2[i].activations) = Len(c.activations)
       /\ \A k \in 1..Len(c.activations) :
            IF c.activations[k].deviceId = req'.deviceId
            THEN s2[i].activations[k] = [c.activations[k] EXCEPT !.lastSeen = now]
            ELSE s2[i].activations[k] = c.activations[k]

\* C2: an activate for a deviceId already activated on a live customer
\* returns 'active', never 'limit_exceeded', keeps the number of activations
\* and changes nothing in them but that device's lastSeen.
C2_Reactivation ==
  [][Handles("activate") => C2On(db, db', resF') /\ C2On(coll, coll', resM')]_vars

C2Seen(s) ==
  \E i \in Holder(s, req.licenseKey) :
    /\ Len(s[i].activations) = s[i].maxDevices
    /\ \E k \in 1..Len(s[i].activations) :
         /\ s[i].activations[k].deviceId = req.deviceId
         /\ s[i].activations[k].activatedAt < now
         /\ s[i].activations[k].lastSeen = now

C2_Witness ==
  /\ req.op = "activate"
  /\ StatusOf(resF) = "active" /\ StatusOf(resM) = "active"
  /\ C2Seen(db) /\ C2Seen(coll)

Devices == DevicesIn \ {""}

C3Orig(s, r) ==
  \A i \in Holder(s, req'.licenseKey) :
    (s[i].status = "banned" /\ req'.deviceId # "") => StatusOf(r) = "banned"

\* C3 as stated: while the stored status is 'banned', every activate and
\* every verify request made with the customer's license key (and a
\* deviceId) returns 'banned'.
C3_AlwaysBanned ==
  [][(Handles("activate") \/ Handles("verify")) => C3Orig(db, resF') /\ C3Orig(coll, resM')]_vars

C3On(s, s2, r) ==
  \A i \in Holder(s, req'.licenseKey) :
    (s[i].status = "banned" /\ req'.deviceId # "")
    => /\ s2[i].status = "banned"
       /\ IF req'.op = "activate" \/ req'.deviceId \in DevIds(s[i])
          THEN r.code = (IF req'.op = "activate" THEN 403 ELSE 200) /\ StatusOf(r) = "banned"
          ELSE r.code = 403 /\ StatusOf(r) = "not_activated"

\* C3 (amended): while the stored status of the record a license key
\* resolves to is 'banned', every activate request with that key and every
\* verify request with that key from a device in the record's activations
\* returns 'banned', expired or not; a verify from a device that is not
\* activated returns 'not_activated'.  The stored status stays 'banned'.
C3_BanPrecedence ==
  [][(Handles("activate") \/ Handles("verify"))
       => C3On(db, db', resF') /\ C3On(coll, coll', resM')]_vars

C3Expired(s) == \E i \in Holder(s, req.licenseKey) : s[i].status = "banned" /\ s[i].expiresAt <= now

C3_Witness ==
  /\ req.op = "verify"
  /\ StatusOf(resF) = "banned" /\ StatusOf(resM) = "banned"
  /\ C3Expired(db) /\ C3Expired(coll)

C4On(mongo, s, s2) ==
  \A i \in 1..Len(s) :
    (s[i].id = req'.id /\ ~bannedOf(req'.banned))
    => /\ s2[i].status = (IF now >= s[i].expiresAt THEN "expired" ELSE "active")
       /\ now >= s[i].expiresAt
          => \A t \in Instants, d \in DevIds(s[i]) :
               (t >= now /\ i \in Holder(s2, s[i].licenseKey))
               => /\ StatusOf(activateLicense(mongo, s2, s[i].licenseKey, d, t).res) = "expired"
                  /\ StatusOf(verifyLicense(mongo, s2, s[i].licenseKey, d, t).res) = "expired"

\* C4: a ban request with banned = false sets the status to 'expired' if
\* now >= expiresAt and to 'active' otherwise; after an unban with expiresAt
\* in the past the next activate or verify for an activated device returns
\* 'expired'.
C4_UnbanRederives ==
  [][Handles("ban") => C4On(FALSE, db, db') /\ C4On(TRUE, coll, coll')]_vars

C4Unbanned(r) ==
  /\ r.code = 200
  /\ r.customer.status = "expired"
  /\ r.customer.expiresAt < now
  /\ Len(r.customer.activations) >= 1

C4_Witness ==
  /\ req.op = "ban" /\ ~bannedOf(req.banned)
  /\ C4Unbanned(resF) /\ C4Unbanned(resM)

C5On(s, s2, r) ==
  \A i \in Holder(s, req'.licenseKey) :
    LET c == s[i] IN
    (c.status # "banned" /\ now >= c.expiresAt /\ req'.deviceId # "")
    => IF req'.op = "activate"
       THEN /\ r.code = 403 /\ StatusOf(r) = "expired" /\ r.expiresAt = c.expiresAt
            /\ s2[i].status = "expired"
            /\ s2[i].activations = c.activations
       ELSE req'.deviceId \in DevIds(c)
            => /\ r.code = 200 /\ StatusOf(r) = "expired"
               /\ s2[i].status = "expired"

\* C5: for a customer that is not banned and has now >= expiresAt, a verify
\* from an activated device returns 'expired' and stores status 'expired';
\* an activate returns 'expired', stores status 'expired' and adds no
\* activation; a step that handles no request changes no stored record.
C5_LazyExpiry ==
  [][/\ (Handles("activate") \/ Handles("verify"))
          => C5On(db, db', resF') /\ C5On(coll, coll', resM')
     /\ req'.op = "none" => UNCHANGED <<db, coll>>]_vars

C5Stored(s) ==
  \E i \in Holder(s, req.licenseKey) : s[i].status = "expired" /\ s[i].expiresAt = now

C5_Witness ==
  /\ req.op = "verify"
  /\ StatusOf(resF) = "expired" /\ StatusOf(resM) = "expired"
  /\ C5Stored(db) /\ C5Stored(coll)

C6On(s, s2) ==
  /\ Len(s2) = Len(s)
  /\ \A i \in 1..Len(s) : s2[i].expiresAt >= s[i].expiresAt

\* C6: a renew request with positive months never leaves a customer's
\* expiresAt earlier than it was before the request.
C6_RenewMonotonic ==
  [][(Handles("renew") /\ req'.months.t = "number" /\ req'.months.n >= 1)
       => C6On(db, db') /\ C6On(coll, coll')]_vars

\* renewed on 31 March after expiry: runs to "31 April", that is 1 May
C6_Witness ==
  /\ req.op = "renew" /\ req.months = Num(1)
  /\ now = 89
  /\ resF.code = 200 /\ resF.customer.expiresAt = 120
  /\ resM.code = 200 /\ resM.customer.expiresAt = 120

KeysUniqueIn(s) == \A i, j \in 1..Len(s) : i # j => s[i].licenseKey # s[j].licenseKey

\* C7: in every reachable state of either store no two customer records
\* have the same licenseKey, whatever keys the generator returns.
C7_KeysUnique == KeysUniqueIn(db) /\ KeysUniqueIn(coll)

NewestFirst(l, s) ==
  /\ Len(l) = Len(s)
  /\ {l[k].id : k \in 1..Len(l)} = {s[k].id : k \in 1..Len(s)}
  /\ \A k \in 1..Len(l) : \E i \in 1..Len(s) : l[k] = s[i]
  /\ \A j, k \in 1..Len(l) : j < k => l[j].createdAt >= l[k].createdAt

\* C8: on both backends the list operation returns all customers ordered
\* by creation time, newest first.
C8_ListNewestFirst ==
  (req.op = "list" /\ resF.code = 200 /\ resM.code = 200)
  => NewestFirst(resF.customers, db) /\ NewestFirst(resM.customers, coll)

NoId(c) == [c EXCEPT !.id = 0]

SameOutcome(f, m) ==
  /\ f.code = m.code
  /\ DOMAIN f = DOMAIN m
  /\ IF "customer" \in DOMAIN f /\ "customer" \in DOMAIN m
     THEN NoId(f.customer) = NoId(m.customer)
     ELSE f = m

\* C9: handled one at a time with the same inputs and clock, the two
\* backends return the same outcome for every issue, renew, ban, activate
\* and verify request and hold the same customer records, up to ids.
C9_BackendsAgree ==
  /\ req.op \in {"create", "renew", "ban", "activate", "verify"} => SameOutcome(resF, resM)
  /\ Len(db) = Len(coll)
  /\ \A i \in 1..Len(db) : i <= Len(coll) => NoId(db[i]) = NoId(coll[i])

UnknownId(s) == \A i \in 1..Len(s) : s[i].id # req'.id

C10On(s, s2, r) ==
  /\ (Handles("create") /\ (req'.name = "" \/ req'.email = ""))
     => r.code = 400 /\ s2 = s
  /\ ((Handles("activate") \/ Handles("verify")) /\ (req'.licenseKey = "" \/ req'.deviceId = ""))
     => r.code = 400 /\ s2 = s
  /\ ((Handles("renew") \/ Handles("ban")) /\ UnknownId(s))
     => r.code = 404 /\ r.error = "not found" /\ s2 = s
  /\ ((Handles("activate") \/ Handles("verify"))
        /\ req'.licenseKey # "" /\ req'.deviceId # "" /\ Holder(s, req'.licenseKey) = {})
     => r.code = 404 /\ StatusOf(r) = "invalid" /\ s2 = s
  /\ (Handles("verify") /\ req'.licenseKey # "" /\ req'.deviceId # ""
        /\ \E i \in Holder(s, req'.licenseKey) : req'.deviceId \notin DevIds(s[i]))
     => r.code = 403 /\ StatusOf(r) = "not_activated" /\ s2 = s

C10Stale(s) ==
  \E i \in Holder(s, req.licenseKey) :
    /\ s[i].status = "active" /\ s[i].expiresAt <= now
    /\ Len(s[i].activations) >= 1

C11_FailuresAnswered ==
  req.op # "none"
  => /\ req.failedF # {} => resF.code >= 400
     /\ req.failedM # {} => resM.code >= 400

C12On(s, s2) ==
  \A i \in 1..Len(s) : s[i].status = "banned" => (i <= Len(s2) /\ s2[i].status = "banned")

\* C12: handled one at a time, a customer whose stored status is 'banned'
\* is still stored 'banned' after every request (create, list, renew,
\* activate, verify, ban with banned = true, rejected requests) other than a
\* ban request with banned = false.
C12_BannedSticky ==
  [][~(Handles("ban") /\ ~bannedOf(req'.banned)) => C12On(db, db') /\ C12On(coll, coll')]_vars

\* a banned customer whose license had run out is renewed and stays banned
C12Renewed(r) ==
  /\ r.code = 200
  /\ r.customer.status = "banned"
  /\ r.customer.expiresAt > now
  /\ Len(r.customer.activations) >= 1

C12_Witness ==
  /\ req.op = "renew" /\ req.months = Num(1)
  /\ C12Renewed(resF) /\ C12Renewed(resM)
  /\ \E i \in 1..Len(db) : db[i] = resF.customer
  /\ \E i \in 1..Len(coll) : coll[i] = resM.customer

\* C13: on the document store, once a customer's stored status is 'banned'
\* it stays 'banned' whatever requests are in flight (no unban is ever
\* requested): an activate or verify that loaded the record before the ban
\* and saves after it does not change the status.
C13_BanSurvives ==
  [][\A i \in 1..Len(coll) : coll[i].status = "banned" => coll'[i].status = "banned"]_vars

\* f is an activate on the document store that loaded a live
\* customer with one activation less than maxDevices, for a new device
C14Read(f) ==
  /\ f.mongo /\ f.req.op = "activate" /\ f.i # 0
  /\ f.snap[f.i].status # "banned" /\ f.at < f.snap[f.i].expiresAt
  /\ Len(f.snap[f.i].activations) = f.snap[f.i].maxDevices - 1
  /\ f.req.deviceId \notin DevIds(f.snap[f.i])

C14Both(a, b) ==
  /\ C14Read(a) /\ C14Read(b)
  /\ a.req.deviceId # b.req.deviceId
  /\ a.pc = "done" /\ b.pc = "done"

\* C14: on the document store, whenever two activate requests for two
\* distinct new devices both loaded the same live customer with
\* maxDevices - 1 activations (so both read before either saved) and both
\* have saved, both are answered 'active' and the stored record holds more
\* than maxDevices activations.
C14_DeviceLimitRace ==
  \A a, b \in Flights :
    C14Both(a, b)
    => /\ StatusOf(a.out.res) = "active" /\ a.out.res.code = 200
       /\ StatusOf(b.out.res) = "active" /\ b.out.res.code = 200
       /\ Len(coll[a.i].activations) > coll[a.i].maxDevices

C14_Witness ==
  \E a, b \in Flights :
    /\ C14Both(a, b)
    /\ coll[1].maxDevices = 1
    /\ DevIds(coll[1]) = {"dev1", "dev2"}

\* two requests that write have both read the data file and neither has
\* written it yet
C15BothRead ==
  \E a, b \in Flights :
    /\ a # b \/ CopiesIn(a, inflight) >= 2
    /\ a.pc = "saving" /\ ~a.mongo
    /\ b.pc = "saving" /\ ~b.mongo

\* C15 as stated: in one server process on the flat file, requests that
\* keep arriving get to a point where two mutating requests have both read
\* the file before either writes it (after which the later write discards
\* the earlier update).
C15_LostUpdateRace == <>C15BothRead

C15Kept(c, c2) ==
  /\ c2.expiresAt >= c.expiresAt
  /\ Len(c2.activations) >= Len(c.activations)
  /\ \A k \in 1..Len(c.activations) :
       /\ c2.activations[k].deviceId = c.activations[k].deviceId
       /\ c2.activations[k].activatedAt = c.activations[k].activatedAt
       /\ c2.activations[k].lastSeen >= c.activations[k].lastSeen

\* C15 (amended): in one server process a flat-file handler reads the file
\* and writes it without giving way to another handler, so no request is
\* ever between its read and its write, and no write discards an earlier
\* update: every step keeps the activations the file held and never moves
\* expiresAt back (renewals being by positive months).
C15_NoLostUpdate ==
  [][/\ \A f \in BagToSet(inflight') : f.pc = "saving" => f.mongo
     /\ \A i \in 1..Len(db) : i <= Len(db') /\ C15Kept(db[i], db'[i])]_vars

\* an activate and a renew on the flat file, both answered and neither
\* response delivered yet, and the file holds the update of each
C15_Witness ==
  \E a, b \in Flights :
    /\ a.pc = "done" /\ ~a.mongo /\ a.req.op = "activate" /\ a.out.res.code = 200
    /\ b.pc = "done" /\ ~b.mongo /\ b.req.op = "renew" /\ b.out.res.code = 200
    /\ a.req.deviceId \in DevIds(db[1])
    /\ db[1].expiresAt = b.out.res.customer.expiresAt
    /\ db[1].expiresAt > a.out.res.expiresAt

C16Base(c) == IF now >= c.expiresAt THEN now ELSE c.expiresAt

C16Orig(s, s2) ==
  \A i \in 1..Len(s) :
    s[i].id = req'.id
    => /\ s2[i].expiresAt = addMonths(C16Base(s[i]), req'.months.n)
       /\ req'.months.n >= 1 => s2[i].expiresAt > now

\* C16 as stated: a renew request with months m sets expiresAt to
\* addMonths(now, m) when now >= expiresAt and to addMonths(expiresAt, m)
\* otherwise, for every number m; with m >= 1 the new expiresAt is later
\* than now.
C16_RenewByMonths ==
  [][(Handles("renew") /\ req'.months.t = "number") => C16Orig(db, db') /\ C16Orig(coll, coll')]_vars

\* the months a renew request counts: the number given, 3 if it is 0 or absent
C16Months(v) == IF v.t = "number" /\ v.n # 0 THEN v.n ELSE 3

C16On(s, s2) ==
  \A i \in 1..Len(s) :
    s[i].id = req'.id
    => /\ s2[i] = [s[i] EXCEPT !.expiresAt = addMonths(C16Base(s[i]), C16Months(req'.months))]
       /\ C16Months(req'.months) >= 1 => s2[i].expiresAt > now

\* C16 (amended): a renew request whose months is a non-zero number m sets
\* expiresAt to addMonths(now, m) when now >= expiresAt and to
\* addMonths(expiresAt, m) otherwise; a request with months 0 or without
\* months is a request with m = 3.  With m >= 1 the new expiresAt is
\* strictly later than now.  Nothing else in the record changes.
C16_RenewBase ==
  [][Handles("renew") => C16On(db, db') /\ C16On(coll, coll')]_vars

\* renewed with months 0 on 3 March, the instant of expiry: runs to 3 June
C16_Witness ==
  /\ req.op = "renew" /\ req.months = Num(0)
  /\ now = 61
  /\ resF.code = 200 /\ resF.customer.expiresAt = 153
  /\ resM.code = 200 /\ resM.customer.expiresAt = 153

C17Fresh(c) ==
  c.status # "banned" => c.status = (IF now >= c.expiresAt THEN "expired" ELSE "active")

\* the response r tells that the handler wrote the record
C17Wrote(r) == r.code = 200 \/ (req.op = "activate" /\ StatusOf(r) = "expired")

C17On(s, r) ==
  /\ (req.op \in {"renew", "ban"} /\ C17Wrote(r))
     => /\ C17Fresh(r.customer)
        /\ \A i \in 1..Len(s) : s[i].id = req.id => C17Fresh(s[i])
  /\ (req.op \in {"activate", "verify"} /\ C17Wrote(r))
     => \A i \in Holder(s, req.licenseKey) : C17Fresh(s[i])

\* C17: right after a renew, ban/unban, activate or verify request that
\* wrote a customer record, that record, unless its status is 'banned', has
\* status 'expired' if now >= expiresAt and 'active' otherwise; the record a
\* renew stores and returns with expiresAt past now is not 'expired'.
C17_StatusFresh == C17On(db, resF) /\ C17On(coll, resM)

C18On(s) == \A i \in 1..Len(s) : s[i].maxDevices >= 1 => Len(s[i].activations) <= s[i].maxDevices

\* C18: handled one at a time, every customer created with maxDevices >= 1
\* has at most maxDevices activations in every reachable state.
C18_Capacity == C18On(db) /\ C18On(coll)

C18Full(s) ==
  \E i \in Holder(s, req.licenseKey) :
    /\ s[i].maxDevices = 1 /\ Len(s[i].activations) = 1
    /\ req.deviceId \notin DevIds(s[i])

\* a second device is refused on a customer created with maxDevices = 1
C18_Witness ==
  /\ req.op = "activate" /\ req.deviceId # ""
  /\ StatusOf(resF) = "limit_exceeded" /\ StatusOf(resM) = "limit_exceeded"
  /\ C18Full(db) /\ C18Full(coll)

\* C20: on the flat-file backend a create, renew, ban, activate or verify
\* request during which reading the data file failed ends as a failure and
\* leaves the persisted customer records as they were.
C20_FailedReadCommitsNothing ==
  [][(/\ req.op = "none"
      /\ req'.op \in {"create", "renew", "ban", "activate", "verify"}
      /\ "read" \in req'.failedF)
       => resF'.code >= 400 /\ db' = db]_vars

C19On(s) ==
  \A i \in 1..Len(s) :
    \A j, k \in 1..Len(s[i].activations) :
      j # k => s[i].activations[j].deviceId # s[i].activations[k].deviceId

\* C19: whatever activate and verify requests are in flight, no customer
\* record of either store has two activations with the same deviceId.
C19_UniqueDevices == C19On(db) /\ C19On(coll)

====
